---- MODULE Spec2Model ----
(***************************************************************************)
(* The caching HTTP client (pipeline/utils/api.py, pipeline/utils/cache.py)*)
(* and the producer/consumer collection pipeline                           *)
(* (pipeline/collectors/nft.py) as a state machine.                        *)
(*                                                                         *)
(* Every `await` of the source that can suspend is a step boundary; the    *)
(* code between two awaits is one atomic action (asyncio is cooperative).  *)
(***************************************************************************)
EXTENDS Integers, Sequences, FiniteSets, TLC

(***************************************************************************)
(* Bounds of the model.                                                    *)
(***************************************************************************)
\* tasks that call get side by side
MaxCallers == 2
\* maxsize of the Queue the producer puts on (500 in nft.py:63), scaled down
QueueMaxSize == 2
\* largest max_concurrency a free-standing client is constructed with
MaxConcurrency == 2
\* detached revalidation tasks alive at the same time
MaxBackground == 1
\* seconds of store time that may elapse in one run
MaxTime == 2
\* attempts of one retried fetch (stamina's attempt limit, scaled down)
MaxAttempts == 2
\* page fetches of one producer run
MaxFetches == 2
\* CacheAPI instances constructed in one process
MaxInstances == 2
\* calls of CacheAPI.cleanup_all in one process
MaxCleanups == 2

(***************************************************************************)
(* Program constants.                                                      *)
(***************************************************************************)
\* AsyncCache._max_ttl
max_ttl == 86400

Min(S) == CHOOSE x \in S : \A y \in S : x <= y

(***************************************************************************)
(* Cache-Control headers.  A header value is the sequence of its           *)
(* directives; a directive is a name and a number (-1: no "=digits").      *)
(* re.search(name) finds the directive anywhere in the value;              *)
(* re.search(name=(\d+)) yields the number of the first one having one.    *)
(***************************************************************************)
Dir(n, v) == [name |-> n, val |-> v]

search(name, cache_control) ==
    \E i \in 1..Len(cache_control) : cache_control[i].name = name

search_int(name, cache_control) ==
    LET hits == {i \in 1..Len(cache_control) :
                    cache_control[i].name = name /\ cache_control[i].val >= 0}
    IN  IF hits = {} THEN -1 ELSE cache_control[Min(hits)].val

\* a response without max-age taken as fresh for max_ttl: the variant of
\* get_max_age that C25 is tested against
get_max_age_heuristic(cache_control) ==
    LET max_age == search_int("max-age", cache_control)
    IN  IF max_age >= 0 THEN max_age ELSE max_ttl

get_max_age(cache_control) ==
    LET max_age == search_int("max-age", cache_control)
    IN  IF max_age >= 0 THEN max_age ELSE 0

\* a TTL left as computed, 0 and above max_ttl included: the variant of
\* calculate_ttl that C13 is tested against
calculate_ttl_unclamped(cache_control) ==
    LET max_age   == get_max_age(cache_control)
        stale_age == search_int("stale-while-revalidate", cache_control)
    IN  IF stale_age >= 0 THEN max_age + stale_age ELSE max_age

calculate_ttl(cache_control) ==
    LET max_age   == get_max_age(cache_control)
        stale_age == search_int("stale-while-revalidate", cache_control)
        ttl       == IF stale_age >= 0 THEN max_age + stale_age ELSE max_age
    IN  IF ttl = 0 \/ ttl > max_ttl THEN max_ttl ELSE ttl

(***************************************************************************)
(* URLs, request headers and cache keys (AsyncCache).  A URL is its        *)
(* urlsplit parts; the query is the parse_qsl list of (key, value) pairs,  *)
(* each string of a pair standing as a number ordered like the string.     *)
(* Request headers are the dict's items in insertion order.                *)
(***************************************************************************)
Url(scheme, netloc, path, query, fragment) ==
    [scheme |-> scheme, netloc |-> netloc, path |-> path,
     query |-> query, fragment |-> fragment]

lower(s) ==
    CASE s = "HTTPS" -> "https"
      [] s = "API.OPENSEA.IO" -> "api.opensea.io"
      [] s = "Accept" -> "accept"
      [] s = "Content-Type" -> "content-type"
      [] s = "X-Api-Key" -> "x-api-key"
      [] OTHER -> s

PairLeq(a, b) == a[1] < b[1] \/ (a[1] = b[1] /\ a[2] <= b[2])

RECURSIVE Insert(_, _)
Insert(x, seq) ==
    IF seq = << >> THEN << x >>
    ELSE IF PairLeq(x, Head(seq)) THEN << x >> \o seq
    ELSE << Head(seq) >> \o Insert(x, Tail(seq))

RECURSIVE sorted(_)
sorted(seq) ==
    IF seq = << >> THEN << >> ELSE Insert(Head(seq), sorted(Tail(seq)))

normalize_url(url) ==
    Url(lower(url.scheme), lower(url.netloc), url.path, sorted(url.query), "")

ALLOWED == {"accept", "content-type"}

\* the dict comprehension: a later item of the same lower-cased name wins
RECURSIVE relevant_headers(_)
relevant_headers(headers) ==
    IF headers = << >> THEN << >>
    ELSE LET n    == Len(headers)
             rest == relevant_headers(SubSeq(headers, 1, n - 1))
             k    == lower(headers[n][1])
         IN  IF k \in ALLOWED
             THEN [x \in (DOMAIN rest) \cup {k} |->
                      IF x = k THEN headers[n][2] ELSE rest[x]]
             ELSE rest

\* the fields a string falls into at its colons
Fields(s) ==
    CASE s = "a:b" -> << "a", "b" >>
      [] s = "b:c" -> << "b", "c" >>
      [] OTHER -> << s >>

\* f"{namespace}:{version}:{digest}": the key stands as the sequence of the
\* fields its colons separate. sha256 over the compact sorted JSON of the
\* payload is taken as injective: the digest stands as the payload itself
build_cache_key(namespace, url, headers, version) ==
    Fields(namespace) \o Fields(version) \o
    << [url |-> normalize_url(url), headers |-> relevant_headers(headers)] >>

(***************************************************************************)
(* The requests of the program and what the servers may answer.            *)
(***************************************************************************)
Clients == {"opensea", "metadata"}

CollectionUrl == Url("https", "api.opensea.io", "/api/v2/collections/slug", << >>, "")
ListingUrl    == Url("https", "api.opensea.io", "/api/v2/chain/c/contract/a/nfts", << >>, "")
MetadataUrl   == Url("https", "meta.example", "/token", << >>, "")
\* a document of no part in the pipeline, for calls of get on their own
DocumentUrl   == Url("https", "api.opensea.io", "/api/v2/document", << >>, "")

\* params of a call: None, or the producer's dict {'limit': 200[, 'next': cursor]}
\* (None stands as the dict of no limit and no cursor; a dict without the key
\* 'next' as the dict whose cursor is "")
NoParams == [limit |-> 0, next |-> ""]
PageParams(cursor) == [limit |-> 200, next |-> cursor]
Cursors == {"", "A"}
ParamsOf(url) ==
    IF url = ListingUrl THEN {PageParams(c) : c \in Cursors}
    ELSE IF url = DocumentUrl THEN {NoParams, PageParams("A")}
    ELSE {NoParams}

UrlsOf(client) ==
    IF client = "opensea" THEN {CollectionUrl, ListingUrl, DocumentUrl}
    ELSE {MetadataUrl}

\* headers is None in every call the program makes
NoHeaders == << >>

KeyOf(client, url) == build_cache_key(client, url, NoHeaders, "v1")
Keys == UNION {{KeyOf(c, u) : u \in UrlsOf(c)} : c \in Clients}

\* the JSON document a server returns for a request
Body(url, params) == [url |-> url, params |-> params]

Headers(cc, etag, lm) == [cache_control |-> cc, etag |-> etag, last_modified |-> lm]

\* the response headers a server may send with a document: between them the
\* three documents are served with every caching policy get distinguishes
Validated      == Headers(<< >>, "e1", "")
Heuristic      == Headers(<< >>, "", "")
Uncacheable    == Headers(<< Dir("no-store", -1) >>, "e1", "")
Swr            == Headers(<< Dir("max-age", 1), Dir("stale-while-revalidate", 1) >>, "e1", "")
SwrStale       == Headers(<< Dir("max-age", 0), Dir("stale-while-revalidate", 1) >>, "e1", "")
NoCache        == Headers(<< Dir("no-cache", -1), Dir("max-age", 2) >>, "", "lm1")
MustRevalidate == Headers(<< Dir("must-revalidate", -1), Dir("max-age", 2) >>, "e1", "")
Dated          == Headers(<< >>, "e1", "lm1")

HeaderProfiles ==
    {Validated, Heuristic, Uncacheable, Swr, SwrStale, NoCache, MustRevalidate,
     Dated}

ProfilesOf(url) ==
    IF url = DocumentUrl THEN HeaderProfiles \ {SwrStale}
    ELSE IF url = MetadataUrl THEN {Heuristic, Uncacheable}
    ELSE {Validated, Uncacheable, SwrStale}

NoUrl == Url("", "", "", << >>, "")
NoBody == [url |-> NoUrl, params |-> NoParams]
Response(status, h, body) ==
    [kind |-> "response", status_code |-> status,
     cache_control |-> h.cache_control, etag |-> h.etag,
     last_modified |-> h.last_modified, body |-> body]
Raised(exc) ==
    [kind |-> exc, status_code |-> 0, cache_control |-> << >>, etag |-> "",
     last_modified |-> "", body |-> NoBody]
NoResponse == Raised("None")

\* httpx exceptions of a request that got no response
TransportErrors == {"ReadTimeout", "RemoteProtocolError", "ConnectError"}

\* what AsyncClient.get may yield for a plain GET
ServerAnswers(url, params) ==
    {Response(200, h, Body(url, params)) : h \in ProfilesOf(url)}
    \cup {Response(500, Headers(<< >>, "", ""), NoBody)}
    \cup {Raised(e) : e \in TransportErrors}

\* what AsyncClient.get may yield for a conditional GET (sent without params)
ConditionalAnswers(url) ==
    {Response(304, h, NoBody) : h \in ProfilesOf(url)}
    \cup {Response(200, h, Body(url, NoParams)) : h \in ProfilesOf(url)}
    \cup {Response(404, Headers(<< >>, "", ""), NoBody)}
    \cup {Raised(e) : e \in TransportErrors}

\* Response.is_success, the test of raise_for_status
is_success(response) ==
    response.status_code >= 200 /\ response.status_code <= 299

\* the `on` of @retry: HTTPStatusError (raised by raise_for_status),
\* RemoteProtocolError, ReadTimeout
Retryable(response) ==
    IF response.kind = "response" THEN ~is_success(response)
    ELSE response.kind \in {"RemoteProtocolError", "ReadTimeout"}

(***************************************************************************)
(* The cache store (AsyncRedisCache over Redis).                           *)
(***************************************************************************)
NoEntry ==
    [status_code |-> 0, method |-> "", cache_control |-> << >>, etag |-> "",
     last_modified |-> "", max_age |-> 0, ttl |-> 0, body |-> NoBody]

\* the payload set_cache serialises for a response
Payload(response) ==
    [status_code   |-> response.status_code,
     method        |-> "GET",
     cache_control |-> response.cache_control,
     etag          |-> response.etag,
     last_modified |-> response.last_modified,
     max_age       |-> get_max_age(response.cache_control),
     ttl           |-> calculate_ttl(response.cache_control),
     body          |-> response.body]

\* a window that excludes its edge: the variant of is_stale that C14 is
\* tested against
is_stale_strict(cached_response, cache_ttl) ==
    cache_ttl < cached_response.ttl - cached_response.max_age

\* is_stale, given the value of redis.ttl(key)
is_stale(cached_response, cache_ttl) ==
    LET stale_window == cached_response.ttl - cached_response.max_age
    IN  cache_ttl <= stale_window

\* a policy under which staleness alone asks for nothing: the variant of
\* needs_revalidation that C11 is tested against
needs_revalidation_strict(cache_control, stale) ==
    \/ search("no-cache", cache_control)
    \/ (search("must-revalidate", cache_control) /\ stale)

needs_revalidation(cache_control, stale) ==
    \/ search("no-cache", cache_control)
    \/ (search("must-revalidate", cache_control) /\ stale)
    \/ stale

NoRevalidationHeaders == [name |-> "", value |-> ""]

\* a get that asks by date whenever the entry has one: the variant of
\* revalidation_headers that C22 is tested against
revalidation_headers_by_date(cached_response) ==
    IF cached_response.last_modified # ""
    THEN [name |-> "if-modified-since", value |-> cached_response.last_modified]
    ELSE IF cached_response.etag # ""
    THEN [name |-> "if-none-match", value |-> cached_response.etag]
    ELSE NoRevalidationHeaders

\* the dict get builds for the conditional GET: one header, or none
revalidation_headers(cached_response) ==
    IF cached_response.etag # ""
    THEN [name |-> "if-none-match", value |-> cached_response.etag]
    ELSE IF cached_response.last_modified # ""
    THEN [name |-> "if-modified-since", value |-> cached_response.last_modified]
    ELSE NoRevalidationHeaders

(***************************************************************************)
(* Tasks.  Task 0 runs get_all_nfts or calls get itself, tasks             *)
(* 1..MaxCallers call get side by side, and the last task runs             *)
(* get_opensea_nfts, the producer.                                         *)
(***************************************************************************)
Main     == 0
Callers  == 1..MaxCallers
Producer == MaxCallers + 1
Tasks    == 0..(MaxCallers + 1)
BgIds    == 1..MaxBackground

VARIABLES
    max_concurrency, \* CacheAPI.max_concurrency of each client
    semaphore,       \* CacheAPI._semaphore: the free slots of each client
    in_flight,       \* requests each AsyncClient has sent and not yet seen answered
    store,           \* Redis: the entry under each key (NoEntry: no such key)
    expires,         \* Redis: the remaining TTL of each key, in seconds
    now,             \* seconds elapsed
    call,            \* the frame of each task's CacheAPI.get call
    result,          \* what each task's finished get call returned or raised
    background       \* the detached _validate_response tasks

VARIABLES
    main,             \* get_all_nfts: its pc and the exception it raised
    producer,         \* get_opensea_nfts: pc, next_cursor, nfts still to put
    queue,            \* Queue._queue
    unfinished_tasks, \* Queue._unfinished_tasks
    puts              \* every nft put on the queue, in order

VARIABLES
    instances,     \* CacheAPI._instances: the registered instances, in order
    http_client,   \* the AsyncClient of each instance: none, open or closed
    close_calls,   \* how often instance.close() was called on each instance
    status_task,   \* CacheAPI._status_task: None, or the state of its Task
    status_alive,  \* the _status_loop tasks created and not yet finished
    redis,         \* AsyncRedisCache._instance: None or an open connection
    cleanup,       \* the call of cleanup_all: its pc, the instances to close,
                   \* the calls made and the close calls of this one
    program        \* main() of main.py: its pc and the cleanup_all calls it made

collectorVars == << main, producer, queue, unfinished_tasks, puts >>

\* the class attributes of CacheAPI, and those with AsyncRedisCache._instance
registryVars == << instances, http_client, close_calls, status_task, status_alive,
                  cleanup, program >>

lifeVars == << registryVars, redis >>

pipeVars == << collectorVars, lifeVars >>

clientVars == << max_concurrency, semaphore, in_flight, store, expires, now,
                 call, result, background >>

NoCall ==
    [pc |-> "idle", client |-> "", url |-> NoUrl, params |-> NoParams,
     key |-> << >>, cached_response |-> NoEntry, attempts |-> 0,
     response |-> NoResponse, path |-> "", headers |-> NoRevalidationHeaders]

NoResult == [kind |-> "none", body |-> NoBody, error |-> ""]
Returned(body) == [kind |-> "body", body |-> body, error |-> ""]
Raises(error) == [kind |-> "error", body |-> NoBody, error |-> error]

NoBackground ==
    [pc |-> "idle", client |-> "", url |-> NoUrl,
     headers |-> NoRevalidationHeaders, key |-> << >>, response |-> NoResponse]

\* the pcs at which a get call holds a slot of its client's semaphore
InsideSemaphore ==
    {"get_cache", "fetch", "backoff", "set_cache", "is_stale", "validate",
     "expire", "set_cache_200"}
\* the pcs at which a get call awaits an answer of the cache store
AwaitsStore == {"get_cache", "set_cache", "is_stale", "expire", "set_cache_200"}
\* the pcs at which a get call awaits an answer to a request it sent
AwaitsServer == {"fetch", "validate"}

ClientInit ==
    /\ semaphore = max_concurrency
    /\ in_flight = [c \in Clients |-> 0]
    /\ store = [k \in Keys |-> NoEntry]
    /\ expires = [k \in Keys |-> 0]
    /\ now = 0
    /\ call = [t \in Tasks |-> NoCall]
    /\ result = [t \in Tasks |-> NoResult]
    /\ background = [b \in BgIds |-> NoBackground]

\* redis.ttl(key): -2 for a key that does not exist
redis_ttl(key) == IF store[key] = NoEntry THEN -2 ELSE expires[key]

\* AsyncRedisCache.get_instance(): the shared connection, created on first
\* use
get_instance == "open"

\* `async with self._semaphore` entered by task t for get(url, params):
\* Semaphore.acquire returns at once when a slot is free and nobody waits;
\* the call then builds its key and enters get_cache, which takes the shared
\* connection before it awaits redis.get(key)
Waiting(client) == {t \in Tasks : call[t].pc = "acquire" /\ call[t].client = client}

StartGet(t, client, url, params) ==
    LET frame == [NoCall EXCEPT !.client = client, !.url = url, !.params = params]
    IN  /\ call[t].pc \in {"idle", "done"}
        /\ result' = [result EXCEPT ![t] = NoResult]
        /\ IF semaphore[client] > 0 /\ Waiting(client) = {}
           THEN /\ semaphore' = [semaphore EXCEPT ![client] = @ - 1]
                /\ call' = [call EXCEPT ![t] =
                       [frame EXCEPT !.pc = "get_cache",
                                     !.key = build_cache_key(client, url, NoHeaders, "v1")]]
                /\ redis' = get_instance
           ELSE /\ semaphore' = semaphore
                /\ call' = [call EXCEPT ![t] = [frame EXCEPT !.pc = "acquire"]]
                /\ redis' = redis

\* a get whose `async with` kept the slot when the body raised: the variant
\* of Leave that C6 is tested against
LeaveHolding(t, frame, res) ==
    /\ call' = [call EXCEPT ![t] =
           [NoCall EXCEPT !.pc = "done", !.client = frame.client,
                          !.path = frame.path]]
    /\ result' = [result EXCEPT ![t] = res]
    /\ semaphore' = IF res.kind = "error" THEN semaphore
                    ELSE [semaphore EXCEPT ![call[t].client] = @ + 1]

\* the get call of task t leaves `async with`: __aexit__ releases the slot
\* (the frame's locals are dropped; the path taken stays for the caller)
Leave(t, frame, res) ==
    /\ call' = [call EXCEPT ![t] =
           [NoCall EXCEPT !.pc = "done", !.client = frame.client,
                          !.path = frame.path]]
    /\ result' = [result EXCEPT ![t] = res]
    /\ semaphore' = [semaphore EXCEPT ![call[t].client] = @ + 1]

(***************************************************************************)
(* CacheAPI.get, one action per await.                                     *)
(***************************************************************************)
\* a waiting call gets a slot
Acquire(t) ==
    /\ call[t].pc = "acquire"
    /\ semaphore[call[t].client] > 0
    /\ semaphore' = [semaphore EXCEPT ![call[t].client] = @ - 1]
    /\ call' = [call EXCEPT ![t].pc = "get_cache",
                            ![t].key = build_cache_key(call[t].client, call[t].url,
                                                       NoHeaders, "v1")]
    /\ redis' = get_instance
    /\ UNCHANGED << max_concurrency, in_flight, store, expires, now, result,
                    background, collectorVars, registryVars >>

\* `await self.cache.get_cache(key)` answers: a miss sends the first attempt
\* of _get_with_retry, a hit goes on to `await self.cache.is_stale(...)`
GetCache(t) ==
    /\ call[t].pc = "get_cache"
    /\ LET cached_response == store[call[t].key]
       IN  IF cached_response = NoEntry
           THEN /\ call' = [call EXCEPT ![t].pc = "fetch", ![t].attempts = 1]
                /\ in_flight' = [in_flight EXCEPT ![call[t].client] = @ + 1]
           ELSE /\ call' = [call EXCEPT ![t].pc = "is_stale",
                                        ![t].cached_response = cached_response]
                /\ in_flight' = in_flight
    /\ UNCHANGED << max_concurrency, semaphore, store, expires, now, result,
                    background, pipeVars >>

\* _get_with_retry: the request of this attempt is answered
FetchAnswered(t, response) ==
    /\ call[t].pc = "fetch"
    /\ in_flight' = [in_flight EXCEPT ![call[t].client] = @ - 1]
    /\ LET frame == [call[t] EXCEPT !.response = response]
       IN  IF response.kind = "response" /\ is_success(response)
           THEN IF ~search("no-store", response.cache_control)
                THEN /\ call' = [call EXCEPT ![t] = [frame EXCEPT !.pc = "set_cache"]]
                     /\ UNCHANGED << semaphore, result >>
                ELSE Leave(t, [frame EXCEPT !.path = "miss"], Returned(response.body))
           ELSE IF Retryable(response) /\ call[t].attempts < MaxAttempts
                THEN /\ call' = [call EXCEPT ![t].pc = "backoff"]
                     /\ UNCHANGED << semaphore, result >>
                ELSE Leave(t, [frame EXCEPT !.path = "miss"],
                           Raises(IF response.kind = "response"
                                  THEN "HTTPStatusError" ELSE response.kind))
    /\ UNCHANGED << max_concurrency, store, expires, now, background, pipeVars >>

\* a retry that sleeps outside `async with self._semaphore`, the slot given
\* back for the time of the sleep: the variant of Backoff that C24 is tested
\* against
BackoffReleased(t) ==
    /\ call[t].pc = "backoff"
    /\ call' = [call EXCEPT ![t].pc = "fetch", ![t].attempts = @ + 1,
                            ![t].response = NoResponse]
    /\ in_flight' = [in_flight EXCEPT ![call[t].client] = @ + 1]
    /\ semaphore' = [semaphore EXCEPT ![call[t].client] =
           IF @ < max_concurrency[call[t].client] THEN @ + 1 ELSE @]
    /\ UNCHANGED << max_concurrency, store, expires, now, result,
                    background, pipeVars >>

\* the backoff sleep of @retry ends and the next attempt is sent
Backoff(t) ==
    /\ call[t].pc = "backoff"
    /\ call' = [call EXCEPT ![t].pc = "fetch", ![t].attempts = @ + 1,
                            ![t].response = NoResponse]
    /\ in_flight' = [in_flight EXCEPT ![call[t].client] = @ + 1]
    /\ UNCHANGED << max_concurrency, semaphore, store, expires, now, result,
                    background, pipeVars >>

\* redis.set(key, dumps(payload), ex=ttl)
redis_set(key, response) ==
    /\ store' = [store EXCEPT ![key] = Payload(response)]
    /\ expires' = [expires EXCEPT ![key] = calculate_ttl(response.cache_control)]

\* a set_cache(update=True) that went on to write the payload of the 304:
\* the variant of redis_expire that C8 is tested against
redis_expire_rewrite(key, response) ==
    /\ store' = [store EXCEPT ![key] = Payload(response)]
    /\ expires' = [expires EXCEPT ![key] = calculate_ttl(response.cache_control)]

\* redis.expire(key, ttl): nothing happens to a key that does not exist
redis_expire(key, response) ==
    /\ store' = store
    /\ expires' = IF store[key] = NoEntry THEN expires
                  ELSE [expires EXCEPT ![key] = calculate_ttl(response.cache_control)]

\* _get_with_retry: `await self.cache.set_cache(response, key)` is done
SetCache(t) ==
    /\ call[t].pc = "set_cache"
    /\ redis_set(call[t].key, call[t].response)
    /\ Leave(t, [call[t] EXCEPT !.path = "miss"], Returned(call[t].response.body))
    /\ UNCHANGED << max_concurrency, in_flight, now, background, pipeVars >>

FreeBackground == {b \in BgIds : background[b].pc = "idle"}

\* a get that awaits every revalidation, stale-while-revalidate or not: the
\* variant of IsStale that C12 is tested against
IsStaleAwaited(t) ==
    /\ call[t].pc = "is_stale"
    /\ LET cached_response == call[t].cached_response
           stale           == is_stale(cached_response, redis_ttl(call[t].key))
           headers         == revalidation_headers(cached_response)
       IN  IF needs_revalidation(cached_response.cache_control, stale)
                 /\ headers # NoRevalidationHeaders
           THEN /\ call' = [call EXCEPT ![t].pc = "validate", ![t].headers = headers]
                /\ in_flight' = [in_flight EXCEPT ![call[t].client] = @ + 1]
                /\ UNCHANGED << semaphore, result, background >>
           ELSE /\ Leave(t, [call[t] EXCEPT !.path = "cache"],
                         Returned(cached_response.body))
                /\ UNCHANGED << in_flight, background >>
    /\ UNCHANGED << max_concurrency, store, expires, now, pipeVars >>

\* `await self.cache.is_stale(cached_response, key)` answers; the rest of
\* get up to its next await follows
IsStale(t) ==
    /\ call[t].pc = "is_stale"
    /\ LET cached_response == call[t].cached_response
           cache_control   == cached_response.cache_control
           stale           == is_stale(cached_response, redis_ttl(call[t].key))
           headers         == revalidation_headers(cached_response)
       IN  IF needs_revalidation(cache_control, stale) /\ headers # NoRevalidationHeaders
           THEN IF search("stale-while-revalidate", cache_control)
                THEN \* create_task(self._validate_response(...)), then serve from cache
                     /\ FreeBackground # {}
                     /\ background' = [background EXCEPT ![Min(FreeBackground)] =
                            [pc |-> "scheduled", client |-> call[t].client,
                             url |-> call[t].url, headers |-> headers,
                             key |-> call[t].key, response |-> NoResponse]]
                     /\ Leave(t, [call[t] EXCEPT !.path = "background"],
                              Returned(cached_response.body))
                     /\ in_flight' = in_flight
                ELSE \* `await self._validate_response(...)`: the request is sent
                     /\ call' = [call EXCEPT ![t].pc = "validate", ![t].headers = headers]
                     /\ in_flight' = [in_flight EXCEPT ![call[t].client] = @ + 1]
                     /\ UNCHANGED << semaphore, result, background >>
           ELSE /\ Leave(t, [call[t] EXCEPT !.path = "cache"],
                         Returned(cached_response.body))
                /\ UNCHANGED << in_flight, background >>
    /\ UNCHANGED << max_concurrency, store, expires, now, pipeVars >>

\* _validate_response called by get: the conditional GET is answered
ValidateAnswered(t, response) ==
    /\ call[t].pc = "validate"
    /\ in_flight' = [in_flight EXCEPT ![call[t].client] = @ - 1]
    /\ LET frame == [call[t] EXCEPT !.response = response]
       IN  IF response.kind # "response"
           THEN Leave(t, [frame EXCEPT !.path = "validate"], Raises(response.kind))
           ELSE IF response.status_code = 304
           THEN /\ call' = [call EXCEPT ![t] = [frame EXCEPT !.pc = "expire"]]
                /\ UNCHANGED << semaphore, result >>
           ELSE IF response.status_code = 200
           THEN /\ call' = [call EXCEPT ![t] = [frame EXCEPT !.pc = "set_cache_200"]]
                /\ UNCHANGED << semaphore, result >>
           ELSE Leave(t, [frame EXCEPT !.path = "other_status"],
                      Returned(call[t].cached_response.body))
    /\ UNCHANGED << max_concurrency, store, expires, now, background, pipeVars >>

\* _validate_response, 304: `await self.cache.set_cache(response, key, update=True)`
\* is done, and get serves from the cache
Expire(t) ==
    /\ call[t].pc = "expire"
    /\ redis_expire(call[t].key, call[t].response)
    /\ Leave(t, [call[t] EXCEPT !.path = "not_modified"],
             Returned(call[t].cached_response.body))
    /\ UNCHANGED << max_concurrency, in_flight, now, background, pipeVars >>

\* get, 200: `await self.cache.set_cache(response, key)` is done
SetCache200(t) ==
    /\ call[t].pc = "set_cache_200"
    /\ redis_set(call[t].key, call[t].response)
    /\ Leave(t, [call[t] EXCEPT !.path = "modified"], Returned(call[t].response.body))
    /\ UNCHANGED << max_concurrency, in_flight, now, background, pipeVars >>

\* the cache store fails the awaited operation (store unavailable)
StoreFails(t) ==
    /\ call[t].pc \in AwaitsStore
    /\ Leave(t, [call[t] EXCEPT !.path = "store"], Raises("RedisError"))
    /\ UNCHANGED << max_concurrency, in_flight, store, expires, now, background,
                    pipeVars >>

\* the task is cancelled while its get call is suspended
Cancel(t) ==
    /\ call[t].pc \in InsideSemaphore \cup {"acquire"}
    /\ call' = [call EXCEPT ![t] =
           [NoCall EXCEPT !.pc = "done", !.client = call[t].client,
                          !.path = "cancelled"]]
    /\ result' = [result EXCEPT ![t] = Raises("CancelledError")]
    /\ semaphore' = IF call[t].pc \in InsideSemaphore
                    THEN [semaphore EXCEPT ![call[t].client] = @ + 1]
                    ELSE semaphore
    /\ in_flight' = IF call[t].pc \in AwaitsServer
                    THEN [in_flight EXCEPT ![call[t].client] = @ - 1]
                    ELSE in_flight
    /\ UNCHANGED << max_concurrency, store, expires, now, background, pipeVars >>

(***************************************************************************)
(* _validate_response as a detached task (stale-while-revalidate).         *)
(***************************************************************************)
\* the task runs to its `await self.client.get(...)`: the request is sent
BackgroundSend(b) ==
    /\ background[b].pc = "scheduled"
    /\ background' = [background EXCEPT ![b].pc = "validate"]
    /\ in_flight' = [in_flight EXCEPT ![background[b].client] = @ + 1]
    /\ UNCHANGED << max_concurrency, semaphore, store, expires, now, call, result,
                    pipeVars >>

\* the conditional GET is answered: a 304 goes on to set_cache(update=True),
\* anything else ends the task (a 200 is logged, an exception is never retrieved)
BackgroundAnswered(b, response) ==
    /\ background[b].pc = "validate"
    /\ in_flight' = [in_flight EXCEPT ![background[b].client] = @ - 1]
    /\ background' = [background EXCEPT ![b] =
           IF response.kind = "response" /\ response.status_code = 304
           THEN [background[b] EXCEPT !.pc = "expire", !.response = response]
           ELSE NoBackground]
    /\ UNCHANGED << max_concurrency, semaphore, store, expires, now, call, result,
                    pipeVars >>

BackgroundExpire(b) ==
    /\ background[b].pc = "expire"
    /\ redis_expire(background[b].key, background[b].response)
    /\ background' = [background EXCEPT ![b] = NoBackground]
    /\ UNCHANGED << max_concurrency, semaphore, in_flight, now, call, result,
                    pipeVars >>

\* the store fails the task's redis.expire
BackgroundStoreFails(b) ==
    /\ background[b].pc = "expire"
    /\ background' = [background EXCEPT ![b] = NoBackground]
    /\ UNCHANGED << max_concurrency, semaphore, in_flight, store, expires, now,
                    call, result, pipeVars >>

(***************************************************************************)
(* One second passes: Redis counts every TTL down and evicts at zero.      *)
(***************************************************************************)
Tick ==
    /\ now < MaxTime
    /\ now' = now + 1
    /\ store' = [k \in Keys |-> IF expires[k] <= 1 THEN NoEntry ELSE store[k]]
    /\ expires' = [k \in Keys |->
                      IF store[k] = NoEntry \/ expires[k] <= 1 THEN 0
                      ELSE expires[k] - 1]
    /\ UNCHANGED << max_concurrency, semaphore, in_flight, call, result,
                    background, pipeVars >>

(***************************************************************************)
(* The pipeline's variables before get_all_nfts is called.                 *)
(***************************************************************************)
NoProducer == [pc |-> "unstarted", next_cursor |-> "", nfts |-> << >>, fetches |-> 0]
NoMain == [pc |-> "idle", error |-> ""]

\* the class attributes of CacheAPI and AsyncRedisCache as the class bodies
\* leave them, before main() runs
InstanceIds == 1..MaxInstances
NoCleanup == [pc |-> "idle", todo |-> << >>, calls |-> 0, closes |-> 0]
NoProgram == [pc |-> "idle", outcome |-> "none", cleanups |-> 0]

LifeIdle ==
    /\ instances = << >>
    /\ http_client = [i \in InstanceIds |-> "none"]
    /\ close_calls = [i \in InstanceIds |-> 0]
    /\ status_task = "None"
    /\ status_alive = 0
    /\ redis = "None"
    /\ cleanup = NoCleanup
    /\ program = NoProgram

\* the instance each client of the model is, in the order of construction
InstanceOf(client) == IF client = "opensea" THEN 1 ELSE 2

\* the class attributes after CacheAPI(namespace="opensea") and
\* CacheAPI(namespace="metadata") were constructed, in this order: both are
\* registered with their AsyncClient open, the first started the status
\* loop, and no call has asked for the store connection yet
Constructed ==
    /\ instances = << InstanceOf("opensea"), InstanceOf("metadata") >>
    /\ http_client = [i \in InstanceIds |->
          IF \E c \in Clients : i = InstanceOf(c) THEN "open" ELSE "none"]
    /\ close_calls = [i \in InstanceIds |-> 0]
    /\ status_task = "running"
    /\ status_alive = 1
    /\ redis = "None"
    /\ cleanup = NoCleanup
    /\ program = NoProgram

\* no call of get_all_nfts or get_opensea_nfts yet, and an empty Queue
CollectorIdle ==
    /\ main = NoMain
    /\ producer = NoProducer
    /\ queue = << >>
    /\ unfinished_tasks = 0
    /\ puts = << >>

PipeIdle == LifeIdle /\ CollectorIdle

(***************************************************************************)
(* Spec: one task calling get on a constructed client for a document       *)
(* served with any policy, beside the detached revalidations its calls     *)
(* start and the store's clock.                                            *)
(***************************************************************************)
\* max_concurrency of a CacheAPI constructed without it
DefaultConcurrency == 10

\* a task calls client.get(url, params=params)
Call(t, client, url, params) ==
    /\ http_client[InstanceOf(client)] # "none"
    /\ call[t].pc = "idle"
    /\ StartGet(t, client, url, params)
    /\ UNCHANGED << max_concurrency, in_flight, store, expires, now,
                    background, collectorVars, registryVars >>

\* the caller has its result; the frame is gone
Return(t) ==
    /\ call[t].pc = "done"
    /\ call' = [call EXCEPT ![t] = NoCall]
    /\ result' = [result EXCEPT ![t] = NoResult]
    /\ UNCHANGED << max_concurrency, semaphore, in_flight, store, expires, now,
                    background, pipeVars >>

vars == << clientVars, pipeVars >>

GetNext(t) ==
    \/ GetCache(t)
    \/ \E response \in ServerAnswers(call[t].url, call[t].params) :
          FetchAnswered(t, response)
    \/ Backoff(t)
    \/ SetCache(t)
    \/ IsStale(t)
    \/ \E response \in ConditionalAnswers(call[t].url) : ValidateAnswered(t, response)
    \/ Expire(t)
    \/ SetCache200(t)
    \/ StoreFails(t)

BackgroundNext(b) ==
    \/ BackgroundSend(b)
    \/ \E response \in ConditionalAnswers(background[b].url) :
          BackgroundAnswered(b, response)
    \/ BackgroundExpire(b)
    \/ BackgroundStoreFails(b)

Init ==
    /\ max_concurrency = [c \in Clients |-> DefaultConcurrency]
    /\ ClientInit
    /\ Constructed
    /\ CollectorIdle

Next ==
    \/ \E params \in ParamsOf(DocumentUrl) : Call(Main, "opensea", DocumentUrl, params)
    \/ GetNext(Main)
    \/ Cancel(Main)
    \/ Return(Main)
    \/ \E b \in BgIds : BackgroundNext(b)
    \/ Tick

Spec == Init /\ [][Next]_vars

(***************************************************************************)
(* SemSpec: several tasks calling get on clients of small max_concurrency. *)
(***************************************************************************)
SemInit ==
    /\ max_concurrency \in [Clients -> 1..MaxConcurrency]
    /\ ClientInit
    /\ Constructed
    /\ CollectorIdle

SemNext ==
    \/ \E t \in Callers : \/ Call(t, "opensea", CollectionUrl, NoParams)
                          \/ Call(t, "metadata", MetadataUrl, NoParams)
    \/ \E t \in Callers : Acquire(t)
    \/ \E t \in Callers : GetNext(t)
    \/ \E t \in Callers : Cancel(t)
    \/ \E t \in Callers : Return(t)
    \/ \E b \in BgIds : BackgroundNext(b)

SemSpec == SemInit /\ [][SemNext]_vars

(***************************************************************************)
(* The catalog the servers hold: the listing's pages by cursor, and what   *)
(* the collector reads in the documents it gets.                           *)
(***************************************************************************)
\* response.get("nfts", []) of a listing document
nfts_of(body) ==
    IF body.url # ListingUrl THEN << >>
    ELSE IF body.params.next = "" THEN << 1 >>
    ELSE IF body.params.next = "A" THEN << 2 >>
    ELSE << >>

\* response.get("next", None) of a listing document ("": no further cursor)
next_of(body) ==
    IF body.url = ListingUrl /\ body.params.next = "" THEN "A" ELSE ""

\* every item of the catalog, page after page
Catalog == nfts_of(Body(ListingUrl, PageParams(""))) \o
           nfts_of(Body(ListingUrl, PageParams("A")))

(***************************************************************************)
(* asyncio.Queue                                                           *)
(***************************************************************************)
\* the room put_nowait can still use
Room == QueueMaxSize - Len(queue)

\* put(value) for the first n of `values`
PutAll(values, n) ==
    /\ queue' = queue \o SubSeq(values, 1, n)
    /\ unfinished_tasks' = unfinished_tasks + n
    /\ puts' = puts \o SubSeq(values, 1, n)

MinOf(a, b) == IF a <= b THEN a ELSE b

(***************************************************************************)
(* The client factories and get_all_nfts                                   *)
(***************************************************************************)
\* the parameters of the __init__ the dataclass generates for CacheAPI: the
\* fields that are neither ClassVar nor field(init=False)
InitParameters == {"api_key", "namespace", "max_concurrency"}

\* CacheAPI(**kwargs): a keyword that is no parameter raises TypeError
\* before __post_init__ runs
CacheAPI(kwargs) ==
    IF kwargs \subseteq InitParameters THEN NoResult ELSE Raises("TypeError")

\* get_opensea_client(): CacheAPI(api_key=, max_concurrency=, stats=, namespace=)
get_opensea_client == CacheAPI({"api_key", "max_concurrency", "stats", "namespace"})

\* get_all_nfts is called: get_opensea_client() raises, and the exception
\* leaves get_all_nfts before any instance is registered, any get is
\* entered, and the queue, the producer or a worker exists
MainStart ==
    /\ main.pc = "idle"
    /\ get_opensea_client.kind = "error"
    /\ main' = [pc |-> "raised", error |-> get_opensea_client.error]
    /\ UNCHANGED << clientVars, lifeVars, producer, queue, unfinished_tasks, puts >>

(***************************************************************************)
(* get_opensea_nfts, the producer                                          *)
(***************************************************************************)
\* get_opensea_nfts(opensea_client, chain, contract_address, queue) starts:
\* the first `await opensea_client.get(url, params=params)`
ProducerStart ==
    /\ producer.pc = "unstarted"
    /\ http_client[InstanceOf("opensea")] # "none"
    /\ StartGet(Producer, "opensea", ListingUrl, PageParams(""))
    /\ producer' = [producer EXCEPT !.pc = "get", !.fetches = 1]
    /\ UNCHANGED << max_concurrency, in_flight, store, expires, now, background,
                    registryVars, main, queue, unfinished_tasks, puts >>

\* the producer with `nfts` still to put and `next_cursor` read: it puts
\* what fits without suspending; with every nft put it ends at an empty
\* cursor and else enters the next get
ProducerPuts(nfts, next_cursor) ==
    LET n == MinOf(Len(nfts), Room)
    IN  /\ PutAll(nfts, n)
        /\ IF n < Len(nfts)
           THEN /\ producer' = [producer EXCEPT !.pc = "put",
                                   !.nfts = SubSeq(nfts, n + 1, Len(nfts)),
                                   !.next_cursor = next_cursor]
                /\ call' = [call EXCEPT ![Producer] = NoCall]
                /\ result' = [result EXCEPT ![Producer] = NoResult]
                /\ UNCHANGED << semaphore, redis >>
           ELSE IF next_cursor = ""
           THEN /\ producer' = [producer EXCEPT !.pc = "done", !.nfts = << >>,
                                   !.next_cursor = ""]
                /\ call' = [call EXCEPT ![Producer] = NoCall]
                /\ result' = [result EXCEPT ![Producer] = NoResult]
                /\ UNCHANGED << semaphore, redis >>
           ELSE /\ producer' = [producer EXCEPT !.pc = "get", !.nfts = << >>,
                                   !.next_cursor = next_cursor,
                                   !.fetches = @ + 1]
                /\ StartGet(Producer, "opensea", ListingUrl, PageParams(next_cursor))

\* `await opensea_client.get(...)` is over: an error ends the producer, a
\* document is read and its nfts are put
ProducerFetched ==
    /\ producer.pc = "get"
    /\ call[Producer].pc = "done"
    /\ IF result[Producer].kind = "error"
       THEN /\ producer' = [producer EXCEPT !.pc = "failed"]
            /\ call' = [call EXCEPT ![Producer] = NoCall]
            /\ result' = [result EXCEPT ![Producer] = NoResult]
            /\ UNCHANGED << semaphore, redis, queue, unfinished_tasks, puts >>
       ELSE ProducerPuts(nfts_of(result[Producer].body), next_of(result[Producer].body))
    /\ UNCHANGED << max_concurrency, in_flight, store, expires, now, background,
                    registryVars, main >>

(***************************************************************************)
(* PipeSpec: get_all_nfts is called, and get_opensea_nfts runs with a      *)
(* constructed client and a Queue of QueueMaxSize. The workers that would  *)
(* take from the queue are created by get_all_nfts after its factory call, *)
(* which raises: nothing takes a value, and a put that finds the queue     *)
(* full stays suspended.                                                   *)
(***************************************************************************)
PipeInit == Init

\* a step of the producer's get call; the model follows the producer through
\* its first MaxFetches calls and leaves a later one where it was entered
PipeGet(t) ==
    /\ producer.fetches <= MaxFetches
    /\ GetNext(t)

PipeNext ==
    \/ MainStart
    \/ ProducerStart
    \/ ProducerFetched
    \/ PipeGet(Producer)
    \/ \E b \in BgIds : BackgroundNext(b)
    \/ Tick

PipeSpec == PipeInit /\ [][PipeNext]_vars

(***************************************************************************)
(* Claims about the chain of pages, on PipeSpec.                           *)
(***************************************************************************)
\* C3: get_all_nfts does not end by raising, and the producer walks the chain
\* of pages once: no item of the catalog is put on the queue, or waits to be
\* put, twice, and a producer that has ended has put exactly the items of
\* the catalog, page after page.
C3_ChainOfPages ==
    /\ main.pc # "raised"
    /\ LET handled == puts \o producer.nfts
       IN  \A i, j \in DOMAIN handled : i # j => handled[i] # handled[j]
    /\ producer.pc = "done" => puts = Catalog

(***************************************************************************)
(* Properties of the client's concurrency (SemSpec).                       *)
(***************************************************************************)
\* C4: a client never has more requests in flight than its max_concurrency,
\* counting the fetches of a miss, the conditional GETs get awaits and the
\* conditional GETs of the detached stale-while-revalidate tasks.
C4_InFlightBound ==
    \A c \in Clients : in_flight[c] <= max_concurrency[c]

\* the get calls of a client that are inside `async with self._semaphore`
Holding(c) == {t \in Tasks : call[t].pc \in InsideSemaphore /\ call[t].client = c}

\* C6: at every moment the slots taken from a client's semaphore are as many
\* as the get calls in progress inside it: a call that returned a body or
\* raised (network error, store error, cancellation) holds none.
C6_SlotsReleased ==
    \A c \in Clients :
        max_concurrency[c] - semaphore[c] = Cardinality(Holding(c))

\* a get call has raised while another call of the same client is still in
\* progress, and exactly that one slot is taken
C6_Witness ==
    \E t \in Tasks :
        /\ call[t].pc = "done"
        /\ result[t].kind = "error"
        /\ result[t].error \in {"ConnectError", "RedisError", "CancelledError"}
        /\ Holding(call[t].client) # {}
        /\ Holding(call[t].client) \subseteq Tasks \ {t}
        /\ semaphore[call[t].client] = max_concurrency[call[t].client] - 1

(***************************************************************************)
(* Properties of revalidation (Spec).                                      *)
(***************************************************************************)
\* a step in which a conditional GET was answered 200 and the answer dealt
\* with: the entry of the key is the payload of the new response
ModifiedStep ==
    /\ \A t \in Tasks :
          (call[t].pc = "set_cache_200" /\ call'[t].path = "modified") =>
              store'[call[t].key] = Payload(call[t].response)
    /\ \A b \in BgIds : \A r \in ConditionalAnswers(background[b].url) :
          (r.kind = "response" /\ r.status_code = 200 /\ BackgroundAnswered(b, r)) =>
              store'[background[b].key] = Payload(r)

\* C7: when a conditional GET is answered 200, the stored entry of the key
\* is replaced in whole by the new response, both when get awaits the
\* revalidation and when a detached stale-while-revalidate task runs it.
C7_ModifiedReplacesEntry == [][ModifiedStep]_vars

\* a step in which a 304 was dealt with: by get (set_cache(update=True), then
\* the cached body is returned) or by a detached task
NotModifiedStep ==
    /\ \A t \in Tasks :
          (call[t].pc = "expire" /\ call'[t].path = "not_modified") =>
              /\ store' = store
              /\ \A k \in Keys \ {call[t].key} : expires'[k] = expires[k]
              /\ store[call[t].key] # NoEntry =>
                    /\ expires'[call[t].key] =
                          calculate_ttl(call[t].response.cache_control)
                    /\ result'[t].body = store[call[t].key].body
              /\ result'[t] = Returned(call[t].cached_response.body)
    /\ \A b \in BgIds :
          (background[b].pc = "expire" /\ background'[b].pc = "idle") =>
              /\ store' = store
              /\ \A k \in Keys \ {background[b].key} : expires'[k] = expires[k]
              /\ expires'[background[b].key] \in
                    {expires[background[b].key],
                     calculate_ttl(background[b].response.cache_control)}

\* C8: when a conditional GET is answered 304, nothing of the store changes
\* but the TTL of the key, set to the TTL computed from the cache-control of
\* the 304; the stored entry keeps its body and every other field, and get
\* returns the cached body.
C8_NotModifiedKeepsEntry == [][NotModifiedStep]_vars

\* get has returned the cached body after a 304 whose cache-control gave the
\* key a TTL other than the one the entry was stored with
C8_Witness ==
    LET key == KeyOf("opensea", DocumentUrl)
    IN  /\ call[Main].pc = "done"
        /\ call[Main].path = "not_modified"
        /\ now = 0
        /\ store[key] # NoEntry
        /\ expires[key] # store[key].ttl
        /\ result[Main] = Returned(store[key].body)

\* C9: a get whose awaited conditional GET was answered with a status other
\* than 304 and 200 raises to its caller.
C9_OtherStatusRaises ==
    \A t \in Tasks : call[t].path = "other_status" => result[t].kind = "error"

\* C10: no entry of the store is the payload of a response whose
\* cache-control has no-store.
C10_NoStoreNeverStored ==
    \A k \in Keys : ~search("no-store", store[k].cache_control)

(***************************************************************************)
(* Properties of the decision taken on a cache hit (Spec).                 *)
(***************************************************************************)
\* the step of get in which `await self.cache.is_stale(...)` has answered
\* and get has gone on to its next await or to its return
DecisionStep(t) ==
    /\ call[t].pc = "is_stale"
    /\ call'[t].pc # "is_stale"
    /\ call'[t].path \notin {"store", "cancelled"}

\* in that step a conditional GET was sent, or handed to a detached task
Attempted(t) == call'[t].pc = "validate" \/ call'[t].path = "background"

\* in that step get returned the cached body and sent nothing
ServedFromCache(t) ==
    /\ call'[t].pc = "done"
    /\ call'[t].path = "cache"
    /\ result'[t] = Returned(call[t].cached_response.body)
    /\ in_flight' = in_flight
    /\ background' = background

\* the entry of the hit is stale, as is_stale answers it in this step
StaleNow(t) == is_stale(call[t].cached_response, redis_ttl(call[t].key))

\* C11 as stated: on a hit a revalidation is attempted exactly when the
\* cached cache-control has no-cache or the entry is stale; otherwise the
\* entry is served from the cache with no request.
C11_RevalidatedIffNoCacheOrStale ==
    [][\A t \in Tasks : DecisionStep(t) =>
          /\ Attempted(t) <=>
                (search("no-cache", call[t].cached_response.cache_control)
                    \/ StaleNow(t))
          /\ ~Attempted(t) => ServedFromCache(t)]_vars

\* C11, amended: a revalidation is attempted exactly when the cached
\* cache-control has no-cache or the entry is stale, and the entry has an
\* etag or a last-modified; in every other case the entry is served from
\* the cache with no request, with or without must-revalidate.
C11_RevalidatedIffValidator ==
    [][\A t \in Tasks : DecisionStep(t) =>
          /\ Attempted(t) <=>
                /\ (search("no-cache", call[t].cached_response.cache_control)
                       \/ StaleNow(t))
                /\ revalidation_headers(call[t].cached_response)
                      # NoRevalidationHeaders
          /\ ~Attempted(t) => ServedFromCache(t)]_vars

\* a get was served from the cache, no request sent, for an entry that has
\* must-revalidate and is not stale
C11_Witness ==
    LET key == KeyOf("opensea", DocumentUrl)
    IN  /\ call[Main].pc = "done"
        /\ call[Main].path = "cache"
        /\ store[key] # NoEntry
        /\ search("must-revalidate", store[key].cache_control)
        /\ ~is_stale(store[key], redis_ttl(key))
        /\ result[Main] = Returned(store[key].body)
        /\ in_flight["opensea"] = 0

\* the hit of this step is one get revalidates in the background: it has
\* stale-while-revalidate, needs revalidation and has a validator
BackgroundCase(t) ==
    LET cached_response == call[t].cached_response
    IN  /\ search("stale-while-revalidate", cached_response.cache_control)
        /\ (search("no-cache", cached_response.cache_control) \/ StaleNow(t))
        /\ revalidation_headers(cached_response) # NoRevalidationHeaders

\* C12: on such a hit get returns the cached body in the very step of its
\* decision, with its slot released and no request of its own sent or
\* awaited; the conditional GET is left to a task of its own, created in
\* that step and not yet run.
C12_ReturnsBeforeRevalidation ==
    [][\A t \in Tasks : (DecisionStep(t) /\ BackgroundCase(t)) =>
          /\ call'[t].pc = "done"
          /\ call'[t].path = "background"
          /\ result'[t] = Returned(call[t].cached_response.body)
          /\ in_flight' = in_flight
          /\ semaphore'[call[t].client] = semaphore[call[t].client] + 1
          /\ \E b \in BgIds :
                /\ background[b].pc = "idle"
                /\ background'[b] =
                      [pc |-> "scheduled", client |-> call[t].client,
                       url |-> call[t].url,
                       headers |-> revalidation_headers(call[t].cached_response),
                       key |-> call[t].key, response |-> NoResponse]]_vars

\* get has returned the cached body while the conditional GET of the
\* detached task is still unanswered
C12_Witness ==
    /\ call[Main].pc = "done"
    /\ call[Main].path = "background"
    /\ result[Main].kind = "body"
    /\ \E b \in BgIds : background[b].pc = "validate"
    /\ in_flight["opensea"] = 1

(***************************************************************************)
(* FnSpec: calculate_ttl of AsyncCache and is_stale of AsyncRedisCache     *)
(* applied to arguments drawn from bounded sets.  call[Main] is the        *)
(* function applied and its arguments, result[Main] the value it returned. *)
(***************************************************************************)
\* directives of one Cache-Control value
MaxDirectives == 2

\* the numbers a directive may carry (-1: a directive without "=digits")
Seconds == {0, 30, 60, max_ttl, max_ttl + 1}

Directives ==
    {Dir(n, v) : n \in {"max-age", "stale-while-revalidate"}, v \in Seconds}
    \cup {Dir("max-age", -1), Dir("no-cache", -1)}

\* the Cache-Control values of up to MaxDirectives directives
CacheControls ==
    UNION {[1..n -> Directives] : n \in 0..MaxDirectives}

\* the answers redis.ttl(key) may give (-2: no such key)
Remaining == {-2, 0, 25, 30, 45, 60, 90, max_ttl}

\* no function applied yet
NoFn == [pc |-> "idle", cache_control |-> << >>, cache_ttl |-> 0]
NoValue == [kind |-> "none", value |-> 0]

FnInit ==
    /\ max_concurrency = [c \in Clients |-> DefaultConcurrency]
    /\ semaphore = max_concurrency
    /\ in_flight = [c \in Clients |-> 0]
    /\ store = [k \in Keys |-> NoEntry]
    /\ expires = [k \in Keys |-> 0]
    /\ now = 0
    /\ call = [t \in Tasks |-> NoFn]
    /\ result = [t \in Tasks |-> NoValue]
    /\ background = [b \in BgIds |-> NoBackground]
    /\ PipeIdle

\* cls.calculate_ttl(cache_control)
CalculateTtl(cache_control) ==
    /\ call[Main].pc = "idle"
    /\ call' = [call EXCEPT ![Main] =
           [NoFn EXCEPT !.pc = "calculate_ttl", !.cache_control = cache_control]]
    /\ result' = [result EXCEPT ![Main] =
           [kind |-> "value", value |-> calculate_ttl(cache_control)]]
    /\ UNCHANGED << max_concurrency, semaphore, in_flight, store, expires, now,
                    background, pipeVars >>

\* the entry set_cache writes for a response of that Cache-Control
EntryOf(cache_control) ==
    Payload(Response(200, Headers(cache_control, "e1", ""), NoBody))

\* cls.is_stale(cached_response, key) is called for the entry of a response
\* of cache_control: it takes the shared connection, created when there is
\* none, and suspends in `await redis.ttl(key)`
IsStaleOf(cache_control) ==
    /\ call[Main].pc = "idle"
    /\ call' = [call EXCEPT ![Main] =
           [NoFn EXCEPT !.pc = "ttl", !.cache_control = cache_control]]
    /\ redis' = get_instance
    /\ UNCHANGED << max_concurrency, semaphore, in_flight, store, expires, now,
                    result, background, collectorVars, registryVars >>

\* redis.ttl(key) answers cache_ttl: is_stale returns its value
TtlAnswered(cache_ttl) ==
    /\ call[Main].pc = "ttl"
    /\ call' = [call EXCEPT ![Main].pc = "is_stale", ![Main].cache_ttl = cache_ttl]
    /\ result' = [result EXCEPT ![Main] =
           [kind |-> "value",
            value |-> is_stale(EntryOf(call[Main].cache_control), cache_ttl)]]
    /\ UNCHANGED << max_concurrency, semaphore, in_flight, store, expires, now,
                    background, pipeVars >>

\* the value is taken; the next application may follow
FnReturn ==
    /\ call[Main].pc \in {"calculate_ttl", "is_stale"}
    /\ call' = [call EXCEPT ![Main] = NoFn]
    /\ result' = [result EXCEPT ![Main] = NoValue]
    /\ UNCHANGED << max_concurrency, semaphore, in_flight, store, expires, now,
                    background, pipeVars >>

FnNext ==
    \/ FnReturn
    \/ \E cache_control \in CacheControls : CalculateTtl(cache_control)
    \/ \E cache_control \in CacheControls : IsStaleOf(cache_control)
    \/ \E cache_ttl \in Remaining : TtlAnswered(cache_ttl)

FnSpec == FnInit /\ [][FnNext]_vars

\* the seconds of the first directive `name` that carries a number, 0 when
\* there is none
SecondsOf(name, cache_control) ==
    LET hits == {i \in 1..Len(cache_control) :
                    cache_control[i].name = name /\ cache_control[i].val >= 0}
    IN  IF hits = {} THEN 0
        ELSE cache_control[CHOOSE i \in hits : \A j \in hits : i <= j].val

\* C13: calculate_ttl returns max-age plus stale-while-revalidate seconds,
\* an absent directive counting 0, and max_ttl when that sum is 0 or above
\* max_ttl: max-age=60 gives 60, max-age=60 with stale-while-revalidate=30
\* gives 90, no directive gives max_ttl; the result is always in 1..max_ttl.
C13_CalculateTtl ==
    call[Main].pc = "calculate_ttl" =>
        LET cache_control == call[Main].cache_control
            sum == SecondsOf("max-age", cache_control)
                      + SecondsOf("stale-while-revalidate", cache_control)
            ttl == result[Main].value
        IN  /\ ttl = IF sum = 0 \/ sum > max_ttl THEN max_ttl ELSE sum
            /\ ttl \in 1..max_ttl
            /\ cache_control = << Dir("max-age", 60) >> => ttl = 60
            /\ cache_control = << Dir("max-age", 60),
                                  Dir("stale-while-revalidate", 30) >> => ttl = 90
            /\ cache_control = << >> => ttl = max_ttl

\* calculate_ttl was applied to max-age=60, stale-while-revalidate=30 and
\* returned 90
C13_Witness ==
    /\ call[Main].pc = "calculate_ttl"
    /\ call[Main].cache_control =
          << Dir("max-age", 60), Dir("stale-while-revalidate", 30) >>
    /\ result[Main].value = 90

\* C14: is_stale answers TRUE exactly when the remaining TTL of the key is
\* at most the stored ttl minus the stored max-age; for ttl 90 and max-age
\* 60 a remaining TTL of 25 is stale and one of 45 is not.
C14_IsStale ==
    call[Main].pc = "is_stale" =>
        LET cached_response == EntryOf(call[Main].cache_control)
            cache_ttl == call[Main].cache_ttl
            stale == result[Main].value
        IN  /\ stale <=> (cache_ttl <= cached_response.ttl - cached_response.max_age)
            /\ (cached_response.ttl = 90 /\ cached_response.max_age = 60) =>
                  /\ cache_ttl = 25 => stale
                  /\ cache_ttl = 45 => ~stale

\* is_stale was applied to an entry of ttl 90 and max-age 60 at the edge of
\* its window, 30 seconds remaining, and answered stale
C14_Witness ==
    /\ call[Main].pc = "is_stale"
    /\ EntryOf(call[Main].cache_control).ttl = 90
    /\ EntryOf(call[Main].cache_control).max_age = 60
    /\ call[Main].cache_ttl = 30
    /\ result[Main].value = TRUE

(***************************************************************************)
(* Properties of the retried fetch (Spec).                                 *)
(***************************************************************************)
\* C15: a fetch of the miss path is retried for as long as it fails with a
\* retryable error (HTTP error status, protocol error, read timeout): a get
\* of the miss path that raises, raises an error that is not retryable.
C15_RetriedWithoutCeiling ==
    \A t \in Tasks :
        (call[t].pc = "done" /\ call[t].path = "miss" /\ result[t].kind = "error") =>
            result[t].error \notin
                {"HTTPStatusError", "RemoteProtocolError", "ReadTimeout"}


(***************************************************************************)
(* LifeSpec: the resources CacheAPI owns. main() awaits get_all_nfts and   *)
(* calls cleanup_all in its finally block; instances are constructed with  *)
(* CacheAPI(...) before the run ends, the store connection is opened by    *)
(* the calls still running; cleanup_all may be called again after main's   *)
(* call.                                                                   *)
(***************************************************************************)
\* how get_all_nfts ends: with the list, with None when the collection has
\* no contract, with an exception, or cancelled
Outcomes == {"returned", "returned_early", "raised", "cancelled"}

Ended == {"returned", "raised"}

InCleanup == cleanup.pc \notin ({"idle"} \cup Ended)

\* the instance the next construction creates
NextInstance == CHOOSE i \in InstanceIds :
                    /\ http_client[i] = "none"
                    /\ \A j \in InstanceIds : http_client[j] = "none" => i <= j

\* CacheAPI.__post_init__ without the test `_status_task is None`
PostInitAlwaysStarts ==
    /\ program.pc = "run"
    /\ \E i \in InstanceIds : http_client[i] = "none"
    /\ instances' = Append(instances, NextInstance)
    /\ http_client' = [http_client EXCEPT ![NextInstance] = "open"]
    /\ status_task' = "running"
    /\ status_alive' = status_alive + 1
    /\ UNCHANGED << close_calls, redis, cleanup, program, clientVars, collectorVars >>

\* CacheAPI.__post_init__ of an instance constructed before the run ends:
\* the instance registers itself, opens its AsyncClient and starts the
\* status loop when none is referenced
PostInit ==
    /\ program.pc = "run"
    /\ \E i \in InstanceIds : http_client[i] = "none"
    /\ instances' = Append(instances, NextInstance)
    /\ http_client' = [http_client EXCEPT ![NextInstance] = "open"]
    /\ IF status_task = "None"
       THEN /\ status_task' = "running"
            /\ status_alive' = status_alive + 1
       ELSE UNCHANGED << status_task, status_alive >>
    /\ UNCHANGED << close_calls, redis, cleanup, program, clientVars, collectorVars >>

\* AsyncRedisCache.get_instance: the shared connection is created on first use
GetInstance ==
    /\ program.pc \in {"run", "cleanup"}
    /\ redis = "None"
    /\ redis' = get_instance
    /\ UNCHANGED << instances, http_client, close_calls, status_task, status_alive,
                    cleanup, program, clientVars, collectorVars >>

\* _status_loop receives the CancelledError in its sleep and returns
StatusCancelled ==
    /\ status_task = "cancelling"
    /\ status_task' = "finished"
    /\ status_alive' = status_alive - 1
    /\ UNCHANGED << instances, http_client, close_calls, redis, cleanup, program,
                    clientVars, collectorVars >>

\* cleanup_all from its loop over list(cls._instances) to its next await
FromLoop(todo, calls, closes) ==
    IF todo = << >>
    THEN [pc |-> "returned", todo |-> << >>, calls |-> calls, closes |-> closes]
    ELSE [pc |-> "await_close", todo |-> todo, calls |-> calls, closes |-> closes]

\* cleanup_all from `await cls.cache.close()` to its next await
FromCacheClose(calls) ==
    IF redis # "None"
    THEN [pc |-> "await_redis", todo |-> << >>, calls |-> calls, closes |-> 0]
    ELSE FromLoop(instances, calls, 0)

\* cls._instances.clear(), reached when the loop has ended
Cleared(c) == IF c.pc = "returned" THEN << >> ELSE instances

\* cleanup_all is called: the status task is cancelled and awaited, or
\* there is none and the call goes on to close the store connection
cleanup_all ==
    /\ ~InCleanup
    /\ IF status_task # "None"
       THEN /\ status_task' = IF status_task = "running" THEN "cancelling"
                              ELSE status_task
            /\ cleanup' = [pc |-> "await_status", todo |-> << >>,
                           calls |-> cleanup.calls + 1, closes |-> 0]
       ELSE /\ status_task' = "None"
            /\ cleanup' = FromCacheClose(cleanup.calls + 1)
    /\ instances' = Cleared(cleanup')
    /\ UNCHANGED << http_client, close_calls, status_alive, redis >>

\* `await cls._status_task` returns; cls._status_task = None
StatusAwaited ==
    /\ cleanup.pc = "await_status"
    /\ status_task = "finished"
    /\ status_task' = "None"
    /\ cleanup' = FromCacheClose(cleanup.calls)
    /\ instances' = Cleared(cleanup')
    /\ UNCHANGED << http_client, close_calls, status_alive, redis, program,
                    clientVars, collectorVars >>

\* `await cls._instance.aclose()` of AsyncRedisCache.close returns or raises
RedisClosed(ok) ==
    /\ cleanup.pc = "await_redis"
    /\ IF ok
       THEN /\ redis' = "None"
            /\ cleanup' = FromLoop(instances, cleanup.calls, 1)
       ELSE /\ redis' = redis
            /\ cleanup' = [cleanup EXCEPT !.pc = "raised", !.closes = 1]
    /\ instances' = Cleared(cleanup')
    /\ UNCHANGED << http_client, close_calls, status_task, status_alive, program,
                    clientVars, collectorVars >>

\* `await instance.close()` of the loop returns or raises
InstanceClosed(ok) ==
    /\ cleanup.pc = "await_close"
    /\ LET instance == Head(cleanup.todo)
       IN  /\ close_calls' = [close_calls EXCEPT ![instance] = @ + 1]
           /\ IF ok
              THEN /\ http_client' = [http_client EXCEPT ![instance] = "closed"]
                   /\ cleanup' = FromLoop(Tail(cleanup.todo), cleanup.calls,
                                           cleanup.closes + 1)
              ELSE /\ http_client' = http_client
                   /\ cleanup' = [cleanup EXCEPT !.pc = "raised", !.todo = << >>,
                                                 !.closes = @ + 1]
    /\ instances' = Cleared(cleanup')
    /\ UNCHANGED << status_task, status_alive, redis, program, clientVars,
                    collectorVars >>

\* main() reaches `await get_all_nfts(nft_slug)`
ProgramStart ==
    /\ program.pc = "idle"
    /\ program' = [program EXCEPT !.pc = "run"]
    /\ UNCHANGED << instances, http_client, close_calls, status_task, status_alive,
                    redis, cleanup, clientVars, collectorVars >>

\* main() with cleanup_all after the try statement instead of in a finally
RunEndsUnguarded(outcome) ==
    /\ program.pc = "run"
    /\ IF outcome \in {"returned", "returned_early"}
       THEN /\ program' = [pc |-> "cleanup", outcome |-> outcome,
                           cleanups |-> program.cleanups + 1]
            /\ cleanup_all
       ELSE /\ program' = [program EXCEPT !.pc = "raised", !.outcome = outcome]
            /\ UNCHANGED << instances, http_client, close_calls, status_task,
                            status_alive, redis, cleanup >>
    /\ UNCHANGED << clientVars, collectorVars >>

\* get_all_nfts returns, raises or is cancelled; the finally block of main()
\* calls cleanup_all
RunEnds(outcome) ==
    /\ program.pc = "run"
    /\ program' = [pc |-> "cleanup", outcome |-> outcome,
                   cleanups |-> program.cleanups + 1]
    /\ cleanup_all
    /\ UNCHANGED << clientVars, collectorVars >>

\* cleanup_all has ended: main() goes on, or the pending exception propagates
ProgramEnds ==
    /\ program.pc = "cleanup"
    /\ cleanup.pc \in Ended
    /\ program' = [program EXCEPT !.pc =
           IF cleanup.pc = "raised" \/ program.outcome \in {"raised", "cancelled"}
           THEN "raised" ELSE "done"]
    /\ UNCHANGED << instances, http_client, close_calls, status_task, status_alive,
                    redis, cleanup, clientVars, collectorVars >>

\* a further call of CacheAPI.cleanup_all after the call of main()
CleanupAgain ==
    /\ program.pc \in {"done", "raised"}
    /\ cleanup.calls < MaxCleanups
    /\ cleanup_all
    /\ UNCHANGED << program, clientVars, collectorVars >>

\* before main() runs: no instance constructed yet
LifeInit ==
    /\ max_concurrency = [c \in Clients |-> DefaultConcurrency]
    /\ ClientInit
    /\ PipeIdle

LifeNext ==
    \/ ProgramStart
    \/ PostInit
    \/ GetInstance
    \/ \E outcome \in Outcomes : RunEnds(outcome)
    \/ StatusCancelled
    \/ StatusAwaited
    \/ \E ok \in BOOLEAN : RedisClosed(ok)
    \/ \E ok \in BOOLEAN : InstanceClosed(ok)
    \/ ProgramEnds
    \/ CleanupAgain

LifeSpec == LifeInit /\ [][LifeNext]_vars

(***************************************************************************)
(* Claims about the resources CacheAPI owns, on LifeSpec.                  *)
(***************************************************************************)
\* a step in which the running call of cleanup_all ends, by returning or by
\* raising
CleanupEnds == InCleanup' = FALSE /\ cleanup'.calls >= 1 /\
               (InCleanup \/ cleanup'.calls = cleanup.calls + 1)

\* the instances in the registry
Registered == {instances[k] : k \in 1..Len(instances)}

\* C16: when a call of cleanup_all ends, close() has been called on every
\* instance that was registered and the registry is empty, also when closing
\* one of the instances failed.
C16_ClosesAllDespiteFailure ==
    [][CleanupEnds =>
          /\ instances' = << >>
          /\ \A i \in Registered : close_calls'[i] >= 1]_vars

\* C17: cleanup_all called again, no client constructed in between, closes no
\* resource twice and raises no error, and leaves the state of one call: no
\* status task, the store connection closed, the registry empty.
C17_CleanupIdempotent ==
    /\ \A i \in InstanceIds : close_calls[i] <= 1
    /\ (cleanup.calls >= 2 /\ cleanup.pc \in Ended) =>
          /\ cleanup.pc = "returned"
          /\ status_task = "None" /\ status_alive = 0
          /\ redis = "None"
          /\ instances = << >>

\* C18: at most one status task is alive; while instances are registered and
\* cleanup_all was not called it is exactly one, the one the first instance
\* started; when a call of cleanup_all ends none is running.
C18_OneStatusTask ==
    /\ status_alive <= 1
    /\ (instances # << >> /\ cleanup.calls = 0) =>
           (status_alive = 1 /\ status_task = "running")
    /\ (cleanup.calls >= 1 /\ ~InCleanup) =>
           (status_alive = 0 /\ status_task = "None")

\* a second instance was constructed after the one that started the status
\* task, and cleanup_all has since ended
C18_Witness ==
    /\ Len(instances) = 0
    /\ \A i \in InstanceIds : http_client[i] = "closed"
    /\ cleanup.pc = "returned"
    /\ status_alive = 0

\* C19: main() calls cleanup_all exactly once, when get_all_nfts has ended
\* and not before, whether it returned the list, returned early, raised or
\* was cancelled.
C19_CleanupOnceAfterRun ==
    /\ program.pc \in {"idle", "run"} => (program.cleanups = 0 /\ cleanup.calls = 0)
    /\ program.pc \in {"cleanup", "done", "raised"} =>
           (program.cleanups = 1 /\ program.outcome \in Outcomes /\ cleanup.calls >= 1)

\* get_all_nfts was cancelled and main() has ended after its one call of
\* cleanup_all
C19_Witness ==
    /\ program.pc = "raised"
    /\ program.outcome = "cancelled"
    /\ program.cleanups = 1
    /\ cleanup.pc = "returned"

(***************************************************************************)
(* KeySpec: build_cache_key applied to two requests. A request is found by *)
(* its place in the tables of namespaces, URLs, header dicts and versions. *)
(***************************************************************************)
KeyNamespaces == << "opensea", "a", "a:b" >>

KeyVersions == << "v1", "c", "b:c" >>

\* one URL, then its query reordered, its scheme and its host in capitals, a
\* fragment added, and another query value
KeyUrls ==
    << Url("https", "api.opensea.io", "/p", << << 1, 1 >>, << 2, 1 >> >>, ""),
       Url("https", "api.opensea.io", "/p", << << 2, 1 >>, << 1, 1 >> >>, ""),
       Url("HTTPS", "api.opensea.io", "/p", << << 1, 1 >>, << 2, 1 >> >>, ""),
       Url("https", "API.OPENSEA.IO", "/p", << << 1, 1 >>, << 2, 1 >> >>, ""),
       Url("https", "api.opensea.io", "/p", << << 1, 1 >>, << 2, 1 >> >>, "top"),
       Url("https", "api.opensea.io", "/p", << << 1, 2 >>, << 2, 1 >> >>, "") >>

\* headers=None, then dicts with and without the allow-listed names
KeyHeaders ==
    << << >>,
       << << "accept", "json" >> >>,
       << << "Accept", "json" >> >>,
       << << "accept", "xml" >> >>,
       << << "x-api-key", "k" >> >>,
       << << "accept", "json" >>, << "x-api-key", "k" >> >> >>

KeyRequests ==
    (DOMAIN KeyNamespaces) \X (DOMAIN KeyUrls) \X (DOMAIN KeyHeaders) \X
    (DOMAIN KeyVersions)

\* cls.build_cache_key(namespace, url, headers, version) for the request r
KeyOfRequest(r) ==
    build_cache_key(KeyNamespaces[r[1]], KeyUrls[r[2]], KeyHeaders[r[3]],
                    KeyVersions[r[4]])

NoRequest == << 0, 0, 0, 0 >>
NoKeys == [pc |-> "idle", first |-> NoRequest, second |-> NoRequest]

KeyInit ==
    /\ max_concurrency = [c \in Clients |-> DefaultConcurrency]
    /\ semaphore = max_concurrency
    /\ in_flight = [c \in Clients |-> 0]
    /\ store = [k \in Keys |-> NoEntry]
    /\ expires = [k \in Keys |-> 0]
    /\ now = 0
    /\ call = [t \in Tasks |-> NoKeys]
    /\ result = [t \in Tasks |-> NoValue]
    /\ background = [b \in BgIds |-> NoBackground]
    /\ PipeIdle

\* the keys of two requests are built and compared: value 1 when they are
\* the same key
BuildCacheKeys(first, second) ==
    /\ call[Main].pc = "idle"
    /\ call' = [call EXCEPT ![Main] =
           [pc |-> "build_cache_key", first |-> first, second |-> second]]
    /\ result' = [result EXCEPT ![Main] =
           [kind |-> "value",
            value |-> IF KeyOfRequest(first) = KeyOfRequest(second) THEN 1 ELSE 0]]
    /\ UNCHANGED << max_concurrency, semaphore, in_flight, store, expires, now,
                    background, pipeVars >>

\* the answer is taken; the next pair may follow
KeyReturn ==
    /\ call[Main].pc # "idle"
    /\ call' = [call EXCEPT ![Main] = NoKeys]
    /\ result' = [result EXCEPT ![Main] = NoValue]
    /\ UNCHANGED << max_concurrency, semaphore, in_flight, store, expires, now,
                    background, pipeVars >>

\* any two requests
KeyCall ==
    /\ call[Main].pc = "idle"
    /\ \E first \in KeyRequests, second \in KeyRequests :
          BuildCacheKeys(first, second)

KeyNext ==
    \/ KeyReturn
    \/ KeyCall

KeySpec == KeyInit /\ [][KeyNext]_vars

\* the multiset of the pairs of a query
Occurrences(pair, query) == Cardinality({i \in DOMAIN query : query[i] = pair})
SameQuery(q1, q2) ==
    \A pair \in {q1[i] : i \in DOMAIN q1} \cup {q2[i] : i \in DOMAIN q2} :
        Occurrences(pair, q1) = Occurrences(pair, q2)

\* the allow-listed items of a header dict, names in lower case
Allowed(headers) ==
    {<< lower(headers[i][1]), headers[i][2] >> : i \in
        {j \in DOMAIN headers : lower(headers[j][1]) \in {"accept", "content-type"}}}

\* two URLs that differ at most in the order of the query parameters, the
\* letter case of scheme and host, and the fragment
SameUrl(u1, u2) ==
    /\ lower(u1.scheme) = lower(u2.scheme)
    /\ lower(u1.netloc) = lower(u2.netloc)
    /\ u1.path = u2.path
    /\ SameQuery(u1.query, u2.query)

\* C21: two requests of the same namespace and version, whose URLs differ at
\* most in query order, scheme/host letter case and fragment, and whose
\* headers differ at most outside the allow-list, get the same key; two
\* requests that differ in the namespace or in the version get different keys.
C21_KeyOfNormalizedRequest ==
    call[Main].pc = "build_cache_key" =>
        LET r1 == call[Main].first
            r2 == call[Main].second
            same == result[Main].value = 1
        IN  /\ ( /\ r1[1] = r2[1] /\ r1[4] = r2[4]
                 /\ SameUrl(KeyUrls[r1[2]], KeyUrls[r2[2]])
                 /\ Allowed(KeyHeaders[r1[3]]) = Allowed(KeyHeaders[r2[3]]) ) => same
            /\ (KeyNamespaces[r1[1]] # KeyNamespaces[r2[1]] \/
                KeyVersions[r1[4]] # KeyVersions[r2[4]]) => ~same

(***************************************************************************)
(* Claims about the conditional request of a hit, on Spec.                 *)
(***************************************************************************)
\* the header of the conditional GET sent or handed over in the step of the
\* decision of task t
SentHeaders(t) ==
    IF call'[t].pc = "validate" THEN call'[t].headers
    ELSE LET b == CHOOSE b \in BgIds : background'[b] # background[b]
         IN  background'[b].headers

\* C22: on a hit that needs revalidation whose entry has neither an etag nor
\* a last-modified, get sends nothing and returns the cached body; a
\* conditional GET carries if-none-match with the entry's etag when the entry
\* has one, and if-modified-since with its last-modified only when it has no
\* etag.
C22_ValidatorOfConditionalGet ==
    [][\A t \in Tasks : DecisionStep(t) =>
          LET cached_response == call[t].cached_response
              needed == search("no-cache", cached_response.cache_control)
                           \/ StaleNow(t)
          IN  /\ (needed /\ cached_response.etag = ""
                         /\ cached_response.last_modified = "") =>
                     (ServedFromCache(t) /\ store' = store)
              /\ Attempted(t) =>
                    /\ cached_response.etag # "" =>
                          SentHeaders(t) = [name |-> "if-none-match",
                                            value |-> cached_response.etag]
                    /\ cached_response.etag = "" =>
                          SentHeaders(t) = [name |-> "if-modified-since",
                                            value |-> cached_response.last_modified]]_vars

\* the conditional GET of a get is unanswered: it carries if-none-match for
\* an entry that has an etag and a last-modified
C22_Witness ==
    /\ call[Main].pc = "validate"
    /\ call[Main].cached_response.etag # ""
    /\ call[Main].cached_response.last_modified # ""
    /\ call[Main].headers.name = "if-none-match"
    /\ in_flight["opensea"] = 1

\* the paths on which get returns cached_response['body']
CachePaths == {"cache", "background", "not_modified", "other_status"}

\* C23: a body get(url, params) returns from the cache is the document of
\* that url and those params: a call never gets the entry stored by a call
\* of the same url with other params.
C23_CachedBodyOfSameParams ==
    [][\A t \in Tasks :
          (call[t].pc \notin {"idle", "done"} /\ call'[t].pc = "done"
              /\ call'[t].path \in CachePaths /\ result'[t].kind = "body") =>
             result'[t].body = Body(call[t].url, call[t].params)]_vars

(***************************************************************************)
(* Claims about the slot of a retried fetch, on SemSpec.                   *)
(***************************************************************************)
\* the get calls of a client that are on the miss path, between the sending
\* of an attempt and the end of the backoff sleep after it
Retrying(c) == {t \in Tasks : call[t].pc \in {"fetch", "backoff"} /\ call[t].client = c}

\* every retrying call of the client holds a slot, asleep or not; when they
\* are as many as the client has slots, none is free and every other call of
\* the client waits for one or is not inside get
SlotsOfRetrying(c) ==
    /\ Cardinality(Retrying(c)) <= max_concurrency[c] - semaphore[c]
    /\ Cardinality(Retrying(c)) = max_concurrency[c] =>
          /\ semaphore[c] = 0
          /\ \A t \in Tasks \ Retrying(c) :
                call[t].client = c => call[t].pc \in {"acquire", "done"}

\* a step in which task t enters get
Enters(t) == call[t].pc \in {"idle", "done"} /\ call'[t].pc \notin {"idle", "done"}

\* C24: a get on the miss path keeps its slot from the first attempt to the
\* end of the fetch, backoff sleeps included, so that max_concurrency
\* retrying calls of a client leave every other get of that client waiting;
\* and a get waits at its entry only for the slots and the waiters of its own
\* client, whatever the calls of other clients do.
C24_SlotHeldWhileRetrying ==
    [][/\ \A c \in Clients : SlotsOfRetrying(c)'
       /\ \A t \in Tasks : Enters(t) =>
             (call'[t].pc = "acquire" <=>
                 (semaphore[call'[t].client] = 0 \/ Waiting(call'[t].client) # {}))]_vars

\* a call sleeps between two attempts holding the only slot of its client, a
\* second call of that client waits for the slot, and nothing else is going on
C24_Witness ==
    \E c \in Clients : \E t1, t2 \in Tasks :
        /\ max_concurrency[c] = Cardinality(Retrying(c))
        /\ call[t1].pc = "backoff" /\ call[t1].client = c
        /\ call[t2].pc = "acquire" /\ call[t2].client = c
        /\ semaphore[c] = 0

(***************************************************************************)
(* Claims about the staleness of what set_cache stores, on FnSpec.         *)
(***************************************************************************)
\* C25: the entry of a response without stale-while-revalidate and without
\* max-age, or with max-age=0, is stored with ttl max_ttl and max-age 0 and
\* is stale at every remaining TTL it can have, so every hit on it needs
\* revalidation; the entry of a response with 0 < max-age <= max_ttl and no
\* stale-while-revalidate is stored with ttl max-age and is not stale at any
\* positive remaining TTL.
C25_StaleWithoutMaxAge ==
    call[Main].pc = "is_stale" =>
        LET cache_control == call[Main].cache_control
            cached_response == EntryOf(cache_control)
            cache_ttl == call[Main].cache_ttl
            stale == result[Main].value
            max_age == SecondsOf("max-age", cache_control)
        IN  ~search("stale-while-revalidate", cache_control) =>
               /\ max_age = 0 =>
                     /\ cached_response.ttl = max_ttl
                     /\ cached_response.max_age = 0
                     /\ cache_ttl <= max_ttl => stale
                     /\ cache_ttl <= max_ttl => needs_revalidation(cache_control, stale)
               /\ (0 < max_age /\ max_age <= max_ttl) =>
                     /\ cached_response.ttl = max_age
                     /\ cache_ttl > 0 => ~stale

\* is_stale was applied to the entry of a response without Cache-Control
\* whose key has its whole max_ttl left, and answered stale
C25_Witness ==
    /\ call[Main].pc = "is_stale"
    /\ call[Main].cache_control = << >>
    /\ call[Main].cache_ttl = max_ttl
    /\ result[Main].value = TRUE

============================================================================
